---------------------------- MODULE Spec2Model ----------------------------
(***************************************************************************)
(* A model of WeatherDashboard (src/task1.py): the demo-data generator,    *)
(* the two fetch methods with their fallback to demo mode, the forecast    *)
(* normaliser process_forecast_data, the daily aggregation and the         *)
(* control flow of create_dashboard.                                       *)
(*                                                                         *)
(* Numbers.  Python floats are modelled in fixed point: Micro units        *)
(* (10^-6) for the intermediate values of generate_demo_data, tenths for   *)
(* the values round(x, 1) produces.  Times are seconds; a naive datetime   *)
(* is a record [s, us] of wall-clock seconds since 1970-01-01 00:00 on the *)
(* local clock and microseconds.                                           *)
(***************************************************************************)
EXTENDS Integers, Sequences, FiniteSets, TLC

VARIABLES
    use_demo,     \* self.use_demo
    everFailed,   \* history: some live request of this run has failed
    calls,        \* number of method calls made on the object so far
    last,         \* record of the last method call (what it did and returned)
    files,        \* image files written by plt.savefig, with what they show
    tz,           \* the local time zone of the process
    demo,         \* SpecDemo: the last result of generate_demo_data
    table         \* SpecTable: the last forecast given to process_forecast_data

vars == <<use_demo, everFailed, calls, last, files, tz, demo, table>>

-----------------------------------------------------------------------------
(* Bounds of the model *)

MaxCalls == 3         \* method calls per run
RecursionLimit == 3   \* frames of one fetch method before RecursionError
NoiseLevels == 4      \* grid of each random draw
NowSteps == 5         \* start times tried around each reference time
MaxPoints == 3        \* points of a live forecast fed to the normaliser

-----------------------------------------------------------------------------
(* Arithmetic helpers *)

Micro == 1000000

Tenth == Micro \div 10

Abs(x) == IF x < 0 THEN -x ELSE x

\* int(x): truncation toward zero of a value in Micro units
IntTrunc(x) == IF x >= 0 THEN x \div Micro ELSE -((-x) \div Micro)

\* round(x, 1): a value in Micro units to the nearest tenth, ties to even
Round1(x) ==
    LET q == x \div Tenth
        r == x % Tenth
    IN  IF 2 * r > Tenth THEN q + 1
        ELSE IF 2 * r < Tenth THEN q
        ELSE IF q % 2 = 0 THEN q ELSE q + 1

-----------------------------------------------------------------------------
(* Local time: datetime.timestamp() and datetime.fromtimestamp() of a      *)
(* naive datetime go through the rules of the local zone.                  *)

Hour == 3600

Day == 24 * Hour

\* 2024-03-31 01:00 and 2024-10-27 02:00 on the wall clock of Europe/London
LondonSpring == 1711846800

LondonAutumn == 1729994400

KolkataOffset == 19800

Zones ==
    { [name |-> "UTC", std |-> 0, dst |-> 0,
       spring |-> LondonSpring, autumn |-> LondonAutumn],
      [name |-> "Asia/Kolkata", std |-> KolkataOffset, dst |-> 0,
       spring |-> LondonSpring, autumn |-> LondonAutumn],
      [name |-> "Europe/London", std |-> 0, dst |-> Hour,
       spring |-> LondonSpring, autumn |-> LondonAutumn] }

\* utcoffset of a wall-clock time (fold = 0: a time in the spring gap takes
\* the offset before the change, a repeated autumn time its first occurrence)
WallOffset(z, s) ==
    IF s >= z.spring + z.dst /\ s < z.autumn THEN z.std + z.dst ELSE z.std

\* utcoffset at an instant
EpochOffset(z, e) ==
    IF e >= z.spring - z.std /\ e < z.autumn - z.std - z.dst
    THEN z.std + z.dst ELSE z.std

\* datetime + timedelta(hours=h): arithmetic on the wall clock
AddHours(d, h) == [s |-> d.s + h * Hour, us |-> d.us]

\* int(d.timestamp()): the float s + us/1e6 truncated
IntTimestamp(z, d) == d.s - WallOffset(z, d.s)

\* datetime.fromtimestamp(e) for an integer e
FromTimestamp(z, e) == [s |-> e + EpochOffset(z, e), us |-> 0]

\* datetime.date()
DateOf(d) == d.s \div Day

-----------------------------------------------------------------------------
(* generate_demo_data *)

NPoints == 40

StepHours == 3

TempWave ==
    << 0, 1913417, 3535534, 4619398, 5000000, 4619398, 3535534, 1913417,
       0, -1913417, -3535534, -4619398, -5000000, -4619398, -3535534, -1913417,
       0, 1913417, 3535534, 4619398, 5000000, 4619398, 3535534, 1913417,
       0, -1913417, -3535534, -4619398, -5000000, -4619398, -3535534, -1913417,
       0, 1913417, 3535534, 4619398, 5000000, 4619398, 3535534, 1913417 >>

HumidityWave ==
    << 0, 5176381, 10000000, 14142136, 17320508, 19318517, 20000000, 19318517,
       17320508, 14142136, 10000000, 5176381, 0, -5176381, -10000000, -14142136,
       -17320508, -19318517, -20000000, -19318517, -17320508, -14142136, -10000000, -5176381,
       0, 5176381, 10000000, 14142136, 17320508, 19318517, 20000000, 19318517,
       17320508, 14142136, 10000000, 5176381, 0, -5176381, -10000000, -14142136 >>

PressureWave ==
    << 0, 1564345, 3090170, 4539905, 5877853, 7071068, 8090170, 8910065,
       9510565, 9876883, 10000000, 9876883, 9510565, 8910065, 8090170, 7071068,
       5877853, 4539905, 3090170, 1564345, 0, -1564345, -3090170, -4539905,
       -5877853, -7071068, -8090170, -8910065, -9510565, -9876883, -10000000, -9876883,
       -9510565, -8910065, -8090170, -7071068, -5877853, -4539905, -3090170, -1564345 >>

\* a humidity wave of three times the amplitude
HumiditySineWide(i) == 3 * HumidityWave[i + 1]

\* 5 * np.sin(i * np.pi / 8), 20 * np.sin(i * np.pi / 12) and
\* 10 * np.sin(i * np.pi / 20), in Micro units
TempSine(i) == TempWave[i + 1]

HumiditySine(i) == HumidityWave[i + 1]

PressureSine(i) == PressureWave[i + 1]

\* np.random.uniform(lo, hi) and np.random.random(): a draw of [lo, hi) is
\* level k of a grid of NoiseLevels steps; the top level is the last value
\* below hi.  lo and hi are in whole units, the draw in Micro units.
Levels == 0 .. NoiseLevels

Uniform(lo, hi, k) ==
    IF k = NoiseLevels THEN hi * Micro - 1
    ELSE lo * Micro + (k * (hi - lo) * Micro) \div NoiseLevels

\* np.random.choice(['Clear', 'Clouds', 'Rain'], p=[0.4, 0.5, 0.1])
Conditions == <<"Clear", "Clouds", "Rain">>

Choice(k) == Conditions[(k % 3) + 1]

DemoCurrent ==
    [main |-> [temp |-> 185, feels_like |-> 172, humidity |-> 65,
               pressure |-> 1013],
     wind |-> [speed |-> 45],
     weather |-> << [description |-> "partly cloudy", main |-> "Clouds"] >>]

\* the body of the loop: point i of the demo forecast, d the levels of its
\* four random draws
DemoPoint(z, base_time, i, d) ==
    LET time_point == AddHours(base_time, i * StepHours)
        temp == 18 * Micro + TempSine(i) + Uniform(-2, 2, d.t)
    IN  [dt |-> IntTimestamp(z, time_point),
         main |-> [temp |-> Round1(temp),
                   feels_like |-> Round1(temp - 15 * Tenth),
                   humidity |-> IntTrunc(60 * Micro + HumiditySine(i)
                                         + Uniform(-5, 5, d.h)),
                   pressure |-> IntTrunc(1010 * Micro + PressureSine(i))],
         wind |-> [speed |-> Round1(3 * Micro + 3 * Uniform(0, 1, d.w))],
         weather |-> << [main |-> Choice(d.c),
                         description |-> "demo weather"] >>]

\* generate_demo_data(): (current, forecast); noise[i + 1] are the draws of
\* point i and base_time is datetime.now()
generate_demo_data(z, base_time, noise) ==
    [current |-> DemoCurrent,
     forecast |-> [list |-> [k \in 1 .. NPoints |->
                                DemoPoint(z, base_time, k - 1, noise[k])]]]


\* the inputs tried for datetime.now() and for the random draws
ReferenceTimes ==
    { LondonSpring - 2 * Day, LondonAutumn - 2 * Day, LondonSpring + 90 * Day }

NowStride == 5400

NowValues ==
    { [s |-> r + k * NowStride, us |-> u] :
        r \in ReferenceTimes, k \in 0 .. NowSteps, u \in {0, 999999} }

NoiseProfile(a, b) ==
    [k \in 1 .. NPoints |->
        [t |-> (a + b * (k - 1)) % (NoiseLevels + 1),
         h |-> (a + 1 + 2 * b * (k - 1)) % (NoiseLevels + 1),
         w |-> (a + 2 + 3 * b * (k - 1)) % (NoiseLevels + 1),
         c |-> (a + b * (k - 1)) % (NoiseLevels + 1)]]

NoiseProfiles == { NoiseProfile(a, b) : a \in Levels, b \in 0 .. 1 }

-----------------------------------------------------------------------------
(* The remote service, as seen through requests.get, raise_for_status and  *)
(* response.json.  A JSON body is a dict (a record; {} is the empty one).  *)

EmptyDict == [x \in {} |-> 0]

\* Python truthiness of a dict or a list
Truthy(v) == DOMAIN v # {}

Has(d, k) == k \in DOMAIN d

JsonBody(v) == [json |-> TRUE, value |-> v]

NotJson == [json |-> FALSE]

Response(status, body) == [type |-> "response", status |-> status, body |-> body]

NoResponse(exc) == [type |-> exc]

\* the exceptions of requests.exceptions, all subclasses of RequestException
\* (JSONDecodeError since requests 2.27)
RequestExceptions ==
    {"ConnectionError", "Timeout", "HTTPError", "JSONDecodeError"}

\* an except clause that names HTTPError alone
IsHTTPError(exc) == exc = "HTTPError"

IsRequestException(exc) == exc \in RequestExceptions

Return(v) == [kind |-> "return", value |-> v]

Raise(exc) == [kind |-> "raise", exc |-> exc]

\* response.raise_for_status(): HTTPError for a 4xx or 5xx status
raise_for_status(resp) == resp.status >= 400 /\ resp.status < 600

\* the body of the try block: requests.get, raise_for_status, json
LiveRequest(resp) ==
    IF resp.type # "response" THEN Raise(resp.type)
    ELSE IF raise_for_status(resp) THEN Raise("HTTPError")
    ELSE IF ~resp.body.json THEN Raise("JSONDecodeError")
    ELSE Return(resp.body.value)


-----------------------------------------------------------------------------
(* What the service may answer *)

Without(d, k) == [x \in DOMAIN d \ {k} |-> d[x]]

\* a point of a live forecast; its other values vary with dt and temp
LivePoint(dt, temp, cond) ==
    [dt |-> dt,
     main |-> [temp |-> temp, feels_like |-> temp - 12,
               humidity |-> 40 + (temp % 50),
               pressure |-> 1000 + ((dt \div Hour) % 30)],
     wind |-> [speed |-> 1 + ((dt \div Hour) % 70)],
     weather |-> << [main |-> cond, description |-> "live weather"] >>]

LiveCurrent == Without(LivePoint(0, 253, "Rain"), "dt")

\* a point with one of the fields or containers the normaliser reads removed
Droppable ==
    {"dt", "main", "main.temp", "main.feels_like", "main.humidity",
     "main.pressure", "wind", "wind.speed", "weather", "weather[0]",
     "weather[0].main", "weather[0].description"}

Drop(p, f) ==
    CASE f = "dt" -> Without(p, "dt")
      [] f = "main" -> Without(p, "main")
      [] f = "main.temp" -> [p EXCEPT !.main = Without(@, "temp")]
      [] f = "main.feels_like" -> [p EXCEPT !.main = Without(@, "feels_like")]
      [] f = "main.humidity" -> [p EXCEPT !.main = Without(@, "humidity")]
      [] f = "main.pressure" -> [p EXCEPT !.main = Without(@, "pressure")]
      [] f = "wind" -> Without(p, "wind")
      [] f = "wind.speed" -> [p EXCEPT !.wind = Without(@, "speed")]
      [] f = "weather" -> Without(p, "weather")
      [] f = "weather[0]" -> [p EXCEPT !.weather = << >>]
      [] f = "weather[0].main" ->
            [p EXCEPT !.weather = << Without(@[1], "main") >>]
      [] f = "weather[0].description" ->
            [p EXCEPT !.weather = << Without(@[1], "description") >>]

StatusCodes == {200, 300, 401, 500}

ErrorBody == [cod |-> 401]

CurrentBodies ==
    { JsonBody(LiveCurrent), JsonBody(EmptyDict), JsonBody(ErrorBody), NotJson }

CurrentResponses ==
    { NoResponse("ConnectionError"), NoResponse("Timeout") }
    \cup { Response(s, b) : s \in StatusCodes, b \in CurrentBodies }

\* the points of a live forecast: 2024-06-29 21:00 UTC onwards, 3 hours apart
LiveStart == LondonSpring + 90 * Day + 20 * Hour

GoodPoints ==
    << LivePoint(LiveStart, 253, "Rain"),
       LivePoint(LiveStart + 3 * Hour, 247, "Clouds"),
       LivePoint(LiveStart + 6 * Hour, 247, "Clear") >>

ForecastOf(points) == [list |-> points]

ForecastBodies ==
    { JsonBody(ForecastOf(GoodPoints)), JsonBody(ForecastOf(<< >>)),
      JsonBody(EmptyDict), JsonBody(ErrorBody), NotJson }
    \cup { JsonBody(ForecastOf([GoodPoints EXCEPT ![2] = Drop(@, f)])) :
             f \in Droppable }

ForecastResponses ==
    { NoResponse("ConnectionError"), NoResponse("Timeout") }
    \cup { Response(s, b) : s \in StatusCodes, b \in ForecastBodies }

\* datetime.now() and the draws of the runs of the dashboard
DashNows == { [s |-> LondonSpring - 2 * Day, us |-> 0] }

DashProfiles == { NoiseProfile(0, 0), NoiseProfile(1, 1) }

-----------------------------------------------------------------------------
(* fetch_current_weather and fetch_forecast.  A call is modelled by the set *)
(* of its possible outcomes, one per answer of the service and per draw.   *)
(* An outcome records the result, where it came from, the flag the call    *)
(* leaves, the answers its live requests got, the deepest frame it reached *)
(* (0: the call itself) and whether a live request of it failed.           *)

\* what is kept of an answer: no response, or its status and kind of body
Answer(resp) ==
    IF resp.type # "response"
    THEN [type |-> resp.type, status |-> 0, json |-> FALSE]
    ELSE [type |-> resp.type, status |-> resp.status, json |-> resp.body.json]

Outcome(result, source, flag, answers, frame, failed) ==
    [result |-> result, source |-> source, use_demo |-> flag,
     answers |-> answers, frames |-> frame, failed |-> failed]

\* o, the outcome of the call made by the except clause, seen from the
\* frame whose request got answer
AfterFailure(answer, o) ==
    [o EXCEPT !.answers = << answer >> \o @, !.failed = TRUE]

RECURSIVE fetch_current_weather(_, _, _)
RECURSIVE fetch_forecast(_, _, _)

\* an except clause that reaches the demo branch through a second call of
\* the method
CurrentRetry(z, flag, frame) == fetch_current_weather(z, TRUE, frame + 2)

\* an except clause that returns demo data for this call only
ForecastFallbackOnce(z, flag, frame) ==
    { [o EXCEPT !.use_demo = flag] : o \in fetch_forecast(z, TRUE, frame + 1) }

\* the except clause: self.use_demo = True; return self.fetch_current_weather()
CurrentFallback(z, flag, frame) == fetch_current_weather(z, TRUE, frame + 1)

\* the except clause: self.use_demo = True; return self.fetch_forecast()
ForecastFallback(z, flag, frame) == fetch_forecast(z, TRUE, frame + 1)

fetch_current_weather(z, flag, frame) ==
    IF frame > RecursionLimit
    THEN { Outcome(Raise("RecursionError"), "none", flag, << >>, frame, FALSE) }
    ELSE IF flag
    THEN { Outcome(Return(generate_demo_data(z, n, p).current),
                   "demo", flag, << >>, frame, FALSE) :
             n \in DashNows, p \in DashProfiles }
    ELSE UNION {
        IF t.r.kind = "return"
        THEN { Outcome(t.r, "live", flag, << t.a >>, frame, FALSE) }
        ELSE IF IsRequestException(t.r.exc)
        THEN { AfterFailure(t.a, o) : o \in CurrentFallback(z, flag, frame) }
        ELSE { Outcome(t.r, "none", flag, << t.a >>, frame, TRUE) } :
        t \in { [a |-> Answer(resp), r |-> LiveRequest(resp)] :
                  resp \in CurrentResponses } }

fetch_forecast(z, flag, frame) ==
    IF frame > RecursionLimit
    THEN { Outcome(Raise("RecursionError"), "none", flag, << >>, frame, FALSE) }
    ELSE IF flag
    THEN { Outcome(Return(generate_demo_data(z, n, p).forecast),
                   "demo", flag, << >>, frame, FALSE) :
             n \in DashNows, p \in DashProfiles }
    ELSE UNION {
        IF t.r.kind = "return"
        THEN { Outcome(t.r, "live", flag, << t.a >>, frame, FALSE) }
        ELSE IF IsRequestException(t.r.exc)
        THEN { AfterFailure(t.a, o) : o \in ForecastFallback(z, flag, frame) }
        ELSE { Outcome(t.r, "none", flag, << t.a >>, frame, TRUE) } :
        t \in { [a |-> Answer(resp), r |-> LiveRequest(resp)] :
                  resp \in ForecastResponses } }

-----------------------------------------------------------------------------
(* process_forecast_data *)

ReturnNone == [kind |-> "none"]

\* the exception of the first read of the loop body that fails on item
PointError(item) ==
    IF \/ ~Has(item, "dt")
       \/ ~Has(item, "main")
       \/ \E k \in {"temp", "feels_like", "humidity", "pressure"} :
             ~Has(item.main, k)
       \/ ~Has(item, "wind")
       \/ ~Has(item.wind, "speed")
       \/ ~Has(item, "weather")
    THEN "KeyError"
    ELSE IF Len(item.weather) = 0 THEN "IndexError"
    ELSE IF ~Has(item.weather[1], "main")
            \/ ~Has(item.weather[1], "description")
    THEN "KeyError"
    ELSE "none"

\* a row with temperature and feels_like exchanged
RowSwapped(z, item) ==
    [datetime |-> FromTimestamp(z, item.dt),
     temperature |-> item.main.feels_like,
     feels_like |-> item.main.temp,
     humidity |-> item.main.humidity,
     pressure |-> item.main.pressure,
     wind_speed |-> item.wind.speed,
     weather |-> item.weather[1].main,
     description |-> item.weather[1].description]

\* the dict appended to data_list for item
Row(z, item) ==
    [datetime |-> FromTimestamp(z, item.dt),
     temperature |-> item.main.temp,
     feels_like |-> item.main.feels_like,
     humidity |-> item.main.humidity,
     pressure |-> item.main.pressure,
     wind_speed |-> item.wind.speed,
     weather |-> item.weather[1].main,
     description |-> item.weather[1].description]

\* a normaliser that leaves out the points it cannot read
process_forecast_data_skipping(z, forecast_data) ==
    IF ~Truthy(forecast_data) THEN ReturnNone
    ELSE IF ~Has(forecast_data, "list") THEN Raise("KeyError")
    ELSE LET good == SelectSeq(forecast_data.list,
                               LAMBDA item : PointError(item) = "none")
         IN  Return([k \in 1 .. Len(good) |->
                       [datetime |-> FromTimestamp(z, good[k].dt),
                        temperature |-> good[k].main.temp,
                        feels_like |-> good[k].main.feels_like,
                        humidity |-> good[k].main.humidity,
                        pressure |-> good[k].main.pressure,
                        wind_speed |-> good[k].wind.speed,
                        weather |-> good[k].weather[1].main,
                        description |-> good[k].weather[1].description]])

\* the DataFrame is the sequence of its rows
process_forecast_data(z, forecast_data) ==
    IF ~Truthy(forecast_data) THEN ReturnNone
    ELSE IF ~Has(forecast_data, "list") THEN Raise("KeyError")
    ELSE LET items == forecast_data.list
             bad == { k \in 1 .. Len(items) : PointError(items[k]) # "none" }
         IN  IF bad # {}
             THEN Raise(PointError(
                     items[CHOOSE k \in bad : \A j \in bad : k <= j]))
             ELSE Return([k \in 1 .. Len(items) |-> Row(z, items[k])])

-----------------------------------------------------------------------------
(* Binary64 arithmetic.  The temperatures of the table are Python floats   *)
(* and the mean of a group is computed in floating point, so the mean is   *)
(* modelled bit for bit.  A natural number of any size is the sequence of  *)
(* its digits in base Radix, least significant first and without leading   *)
(* zeros; a float is [s, m, e] of value s * m * 2^e with s the sign (1 or  *)
(* -1) and m a natural of exactly Precision bits, or zero (m empty).       *)

Radix == 32768

RadixBits == 15

Precision == 53

RECURSIVE Pow2(_)
Pow2(k) == IF k = 0 THEN 1 ELSE 2 * Pow2(k - 1)

RECURSIVE BitLength(_)
BitLength(n) == IF n = 0 THEN 0 ELSE 1 + BitLength(n \div 2)

Digit(a) == IF a = << >> THEN 0 ELSE Head(a)

Higher(a) == IF a = << >> THEN << >> ELSE Tail(a)

RECURSIVE BNorm(_)
BNorm(a) ==
    IF a = << >> THEN a
    ELSE IF a[Len(a)] = 0 THEN BNorm(SubSeq(a, 1, Len(a) - 1))
    ELSE a

RECURSIVE BFromInt(_)
BFromInt(n) ==
    IF n = 0 THEN << >> ELSE << n % Radix >> \o BFromInt(n \div Radix)

RECURSIVE BAddC(_, _, _)
BAddC(a, b, c) ==
    IF a = << >> /\ b = << >>
    THEN IF c = 0 THEN << >> ELSE << c >>
    ELSE LET x == Digit(a) + Digit(b) + c
         IN  << x % Radix >> \o BAddC(Higher(a), Higher(b), x \div Radix)

BAdd(a, b) == BAddC(a, b, 0)

\* a - b - c for a >= b + c, before the leading zeros are removed
RECURSIVE BSubC(_, _, _)
BSubC(a, b, c) ==
    IF a = << >> THEN << >>
    ELSE LET x == Digit(a) - Digit(b) - c
         IN  IF x < 0
             THEN << x + Radix >> \o BSubC(Higher(a), Higher(b), 1)
             ELSE << x >> \o BSubC(Higher(a), Higher(b), 0)

BSub(a, b) == BNorm(BSubC(a, b, 0))

\* -1, 0 or 1 as a < b, a = b or a > b
RECURSIVE BCmp(_, _)
BCmp(a, b) ==
    IF Len(a) # Len(b) THEN (IF Len(a) < Len(b) THEN -1 ELSE 1)
    ELSE IF a = << >> THEN 0
    ELSE IF a[Len(a)] # b[Len(b)]
    THEN (IF a[Len(a)] < b[Len(b)] THEN -1 ELSE 1)
    ELSE BCmp(SubSeq(a, 1, Len(a) - 1), SubSeq(b, 1, Len(b) - 1))

\* a * k + c for k <= Radix
RECURSIVE BMulC(_, _, _)
BMulC(a, k, c) ==
    IF a = << >> THEN BFromInt(c)
    ELSE LET x == Head(a) * k + c
         IN  << x % Radix >> \o BMulC(Tail(a), k, x \div Radix)

\* quotient (with leading zeros) and remainder of a by n <= Radix
RECURSIVE BDivMod(_, _)
BDivMod(a, n) ==
    IF a = << >> THEN [q |-> << >>, r |-> 0]
    ELSE LET hi == BDivMod(Tail(a), n)
             x == hi.r * Radix + Head(a)
         IN  [q |-> << x \div n >> \o hi.q, r |-> x % n]

BBits(a) ==
    IF a = << >> THEN 0
    ELSE (Len(a) - 1) * RadixBits + BitLength(a[Len(a)])

\* a * 2^k
BShl(a, k) ==
    IF a = << >> THEN a
    ELSE [i \in 1 .. (k \div RadixBits) |-> 0]
         \o BMulC(a, Pow2(k % RadixBits), 0)

\* a \div 2^k
BShr(a, k) ==
    IF k \div RadixBits >= Len(a) THEN << >>
    ELSE BNorm(BDivMod(SubSeq(a, (k \div RadixBits) + 1, Len(a)),
                       Pow2(k % RadixBits)).q)

BOdd(a) == Digit(a) % 2 = 1

FZero == [s |-> 1, m |-> << >>, e |-> 0]

\* the float nearest to s * (m + d) * 2^e, ties to even, where 0 <= d < 1
\* and d > 0 exactly if sticky (then m has more than Precision bits)
RoundFloat(s, m, e, sticky) ==
    LET n == BBits(m)
        k == n - Precision
    IN  IF n = 0 THEN FZero
        ELSE IF k <= 0 THEN [s |-> s, m |-> BShl(m, -k), e |-> e + k]
        ELSE LET q == BShr(m, k)
                 rest == BCmp(BSub(m, BShl(q, k)), BShl(<< 1 >>, k - 1))
                 up == \/ rest > 0
                       \/ rest = 0 /\ (sticky \/ BOdd(q))
                 r == IF up THEN BAdd(q, << 1 >>) ELSE q
             IN  IF BBits(r) > Precision
                 THEN [s |-> s, m |-> BShr(r, 1), e |-> e + k + 1]
                 ELSE [s |-> s, m |-> r, e |-> e + k]

\* float(n) for an int n
FromInt(n) == RoundFloat(IF n < 0 THEN -1 ELSE 1, BFromInt(Abs(n)), 0, FALSE)

FNeg(x) == IF x.m = << >> THEN x ELSE [x EXCEPT !.s = -x.s]

\* x + y
FAdd(x, y) ==
    IF x.m = << >> THEN y
    ELSE IF y.m = << >> THEN x
    ELSE LET e == IF x.e < y.e THEN x.e ELSE y.e
             a == BShl(x.m, x.e - e)
             b == BShl(y.m, y.e - e)
             c == BCmp(a, b)
         IN  IF x.s = y.s THEN RoundFloat(x.s, BAdd(a, b), e, FALSE)
             ELSE IF c = 0 THEN FZero
             ELSE IF c > 0 THEN RoundFloat(x.s, BSub(a, b), e, FALSE)
             ELSE RoundFloat(y.s, BSub(b, a), e, FALSE)

\* x - y
FSub(x, y) == FAdd(x, FNeg(y))

GuardBits == 17

\* x / n for an int n with 0 < n < Radix
FDivInt(x, n) ==
    LET d == BDivMod(BShl(x.m, GuardBits), n)
    IN  RoundFloat(x.s, BNorm(d.q), x.e - GuardBits, d.r # 0)

\* -1, 0 or 1 as x < y, x = y or x > y
FCmp(x, y) ==
    IF x.m = << >> /\ y.m = << >> THEN 0
    ELSE IF x.m = << >> THEN -y.s
    ELSE IF y.m = << >> THEN x.s
    ELSE IF x.s # y.s THEN x.s
    ELSE IF x.e # y.e THEN (IF x.e < y.e THEN -x.s ELSE x.s)
    ELSE x.s * BCmp(x.m, y.m)

FLe(x, y) == FCmp(x, y) <= 0

\* the float of a decimal with one digit after the point, given in tenths:
\* what a JSON number or round(x, 1) yields
FromTenths(t) == FDivInt(FromInt(t), 10)

-----------------------------------------------------------------------------
(* The daily aggregation of create_dashboard (panel 9) *)

\* groups in descending order of their key
RECURSIVE SortSetDescending(_)
SortSetDescending(S) ==
    IF S = {} THEN << >>
    ELSE LET m == CHOOSE x \in S : \A y \in S : x >= y
         IN  << m >> \o SortSetDescending(S \ {m})

RECURSIVE SortSet(_)
SortSet(S) ==
    IF S = {} THEN << >>
    ELSE LET m == CHOOSE x \in S : \A y \in S : x <= y
         IN  << m >> \o SortSet(S \ {m})

RECURSIVE SeqMin(_)
SeqMin(q) ==
    IF Len(q) = 1 THEN q[1]
    ELSE LET m == SeqMin(Tail(q)) IN IF q[1] < m THEN q[1] ELSE m

RECURSIVE SeqMax(_)
SeqMax(q) ==
    IF Len(q) = 1 THEN q[1]
    ELSE LET m == SeqMax(Tail(q)) IN IF q[1] > m THEN q[1] ELSE m

\* df['date'] = df['datetime'].dt.date
WithDate(df) ==
    [k \in 1 .. Len(df) |->
        [x \in DOMAIN df[k] \cup {"date"} |->
            IF x = "date" THEN DateOf(df[k].datetime) ELSE df[k][x]]]

\* the temperatures of the rows of one date, in row order
TemperaturesOn(df, d) ==
    LET on == SelectSeq(df, LAMBDA r : r.date = d)
    IN  [k \in 1 .. Len(on) |-> on[k].temperature]

\* one step of the compensated sum of the group mean:
\*   y = val - compensation; t = sumx + y;
\*   compensation = t - sumx - y; sumx = t
KahanStep(acc, val) ==
    LET y == FSub(val, acc.compensation)
        t == FAdd(acc.sumx, y)
    IN  [sumx |-> t, compensation |-> FSub(FSub(t, acc.sumx), y)]

RECURSIVE KahanSum(_)
KahanSum(q) ==
    IF q = << >> THEN [sumx |-> FZero, compensation |-> FZero]
    ELSE KahanStep(KahanSum(SubSeq(q, 1, Len(q) - 1)),
                   FromTenths(q[Len(q)]))

\* the mean of a group, temperatures in tenths: sumx / count
Mean(q) == FDivInt(KahanSum(q).sumx, Len(q))

\* df.groupby('date').agg({'temperature': ['min', 'max', 'mean']})
\* .reset_index(): one row per group, the groups sorted by their key
daily_stats(df) ==
    LET dates == SortSet({ df[k].date : k \in 1 .. Len(df) })
    IN  [g \in 1 .. Len(dates) |->
            LET q == TemperaturesOn(df, dates[g])
            IN  [date |-> dates[g], min_temp |-> SeqMin(q),
                 max_temp |-> SeqMax(q), mean_temp |-> Mean(q)]]


-----------------------------------------------------------------------------
(* create_dashboard *)

\* the exception of the first read of panel 1 that fails on current
CurrentError(current) ==
    IF \/ ~Has(current, "main")
       \/ \E k \in {"temp", "feels_like", "humidity", "pressure"} :
             ~Has(current.main, k)
       \/ ~Has(current, "wind")
       \/ ~Has(current.wind, "speed")
       \/ ~Has(current, "weather")
    THEN "KeyError"
    ELSE IF Len(current.weather) = 0 THEN "IndexError"
    ELSE IF ~Has(current.weather[1], "description") THEN "KeyError"
    ELSE "none"

\* the exception of panels 1 to 8: panel 1 reads current, panel 2 onwards
\* the columns of df, which a DataFrame without rows does not have
PanelError(current, df) ==
    IF df.kind = "none" THEN "TypeError"
    ELSE IF CurrentError(current) # "none" THEN CurrentError(current)
    ELSE IF Len(df.value) = 0 THEN "KeyError"
    ELSE "none"

\* a guard that tests for None only
FetchFailedIsNone(current, forecast) == FALSE

\* if not current or not forecast: return
FetchFailed(current, forecast) == ~Truthy(current) \/ ~Truthy(forecast)

\* title_suffix and filename follow self.use_demo as it is when they are read
TitleSuffix(flag) == IF flag THEN " (DEMO DATA)" ELSE ""

\* a file name that ignores the flag
FilenameLive(flag) == "weather_dashboard.png"

Filename(flag) ==
    IF flag THEN "weather_dashboard_demo.png" ELSE "weather_dashboard.png"

NoImage == [name |-> "", title_suffix |-> "", current |-> "none",
            forecast |-> "none"]

Run(result, flag, fetches, steps, stats, image) ==
    [result |-> result, use_demo |-> flag, fetches |-> fetches,
     steps |-> steps, stats |-> stats, image |-> image]

\* the method after both fetches have returned c and f
Render(z, c, f) ==
    LET flag == f.use_demo
        both == << c, f >>
        current == c.result.value
        forecast == f.result.value
        df == process_forecast_data(z, forecast)
    IN  IF FetchFailed(current, forecast)
        THEN Run(ReturnNone, flag, both, << >>, << >>, NoImage)
        ELSE IF df.kind = "raise"
        THEN Run(df, flag, both, << "process" >>, << >>, NoImage)
        ELSE IF PanelError(current, df) # "none"
        THEN Run(Raise(PanelError(current, df)), flag, both,
                 << "process", "figure" >>, << >>, NoImage)
        ELSE LET dated == WithDate(df.value)
             IN  Run(Return(dated), flag, both,
                     << "process", "figure", "panels", "daily_stats",
                        "savefig" >>,
                     daily_stats(dated),
                     [name |-> Filename(flag),
                      title_suffix |-> TitleSuffix(flag),
                      current |-> c.source, forecast |-> f.source])

\* the possible runs of create_dashboard from flag
create_dashboard(z, flag) ==
    UNION {
        IF c.result.kind = "raise"
        THEN { Run(c.result, c.use_demo, << c >>, << >>, << >>, NoImage) }
        ELSE UNION {
            IF f.result.kind = "raise"
            THEN { Run(f.result, f.use_demo, << c, f >>, << >>, << >>,
                       NoImage) }
            ELSE { Render(z, c, f) } :
            f \in fetch_forecast(z, c.use_demo, 0) } :
        c \in fetch_current_weather(z, flag, 0) }

-----------------------------------------------------------------------------
(* The run of one WeatherDashboard object: the constructor, then calls of  *)
(* its methods.                                                            *)

NoDemo == [zone |-> "", base_time |-> [s |-> 0, us |-> 0], noise |-> << >>,
           current |-> EmptyDict, forecast |-> EmptyDict]

NoTable == [forecast |-> EmptyDict, result |-> [kind |-> "pending"],
            stats |-> << >>]

NoCall == [op |-> "__init__"] @@ Run(ReturnNone, FALSE, << >>, << >>, << >>,
                                      NoImage)

\* __init__(api_key, city, use_demo)
Constructed ==
    /\ use_demo \in BOOLEAN
    /\ everFailed = FALSE
    /\ calls = 0
    /\ last = [NoCall EXCEPT !.use_demo = use_demo]
    /\ files = {}
    /\ tz \in Zones

Init ==
    /\ Constructed
    /\ demo = NoDemo
    /\ table = NoTable

\* the outcomes of each method for each zone and each value of the flag
CurrentOutcomes ==
    [z \in Zones |-> [flag \in BOOLEAN |-> fetch_current_weather(z, flag, 0)]]

ForecastOutcomes ==
    [z \in Zones |-> [flag \in BOOLEAN |-> fetch_forecast(z, flag, 0)]]

DashboardRuns ==
    [z \in Zones |-> [flag \in BOOLEAN |-> create_dashboard(z, flag)]]

Called(op, r) ==
    /\ use_demo' = r.use_demo
    /\ everFailed' = (everFailed \/ \E k \in DOMAIN r.fetches : r.fetches[k].failed)
    /\ calls' = calls + 1
    /\ last' = [op |-> op] @@ r
    /\ files' = IF r.image = NoImage THEN files ELSE files \cup {r.image}
    /\ UNCHANGED <<tz, demo, table>>

FetchCurrentWeather ==
    /\ calls < MaxCalls
    /\ \E o \in CurrentOutcomes[tz][use_demo] :
          Called("fetch_current_weather",
                 Run(o.result, o.use_demo, << o >>, << >>, << >>, NoImage))

FetchForecast ==
    /\ calls < MaxCalls
    /\ \E o \in ForecastOutcomes[tz][use_demo] :
          Called("fetch_forecast",
                 Run(o.result, o.use_demo, << o >>, << >>, << >>, NoImage))

CreateDashboard ==
    /\ calls < MaxCalls
    /\ \E r \in DashboardRuns[tz][use_demo] : Called("create_dashboard", r)

Next == FetchCurrentWeather \/ FetchForecast \/ CreateDashboard

Spec == Init /\ [][Next]_vars


-----------------------------------------------------------------------------
(* generate_demo_data on its own: the start time and the draws are chosen, *)
(* then the method is applied.                                             *)

InitDemo ==
    /\ Constructed
    /\ \E n \in NowValues, p \in NoiseProfiles :
          demo = [NoDemo EXCEPT !.base_time = n, !.noise = p]
    /\ table = NoTable

GenerateDemo ==
    /\ demo.zone = ""
    /\ LET g == generate_demo_data(tz, demo.base_time, demo.noise)
       IN  demo' = [demo EXCEPT !.zone = tz.name, !.current = g.current,
                                !.forecast = g.forecast]
    /\ UNCHANGED <<use_demo, everFailed, calls, last, files, tz, table>>

SpecDemo == InitDemo /\ [][GenerateDemo]_vars

-----------------------------------------------------------------------------
(* process_forecast_data and the daily aggregation on their own: a         *)
(* forecast is chosen, then normalised and aggregated.                     *)

TableTimes == { LiveStart, LiveStart + 3 * Hour, LiveStart + 6 * Hour }

TableTemps == { 107, 253 }

TablePoints ==
    { LivePoint(dt, temp, "Rain") : dt \in TableTimes, temp \in TableTemps }

TableInputs(z) ==
    { ForecastOf(ps) :
        ps \in UNION { [1 .. n -> TablePoints] : n \in 0 .. MaxPoints } }
    \cup { b.value : b \in ForecastBodies \ {NotJson} }
    \cup { generate_demo_data(z, n, p).forecast :
             n \in DashNows, p \in DashProfiles }

InitTable ==
    /\ Constructed
    /\ demo = NoDemo
    /\ \E f \in TableInputs(tz) : table = [NoTable EXCEPT !.forecast = f]

Normalise ==
    /\ table.result.kind = "pending"
    /\ LET df == process_forecast_data(tz, table.forecast)
       IN  table' = [table EXCEPT
                       !.result = df,
                       !.stats = IF df.kind = "return"
                                 THEN daily_stats(WithDate(df.value))
                                 ELSE << >>]
    /\ UNCHANGED <<use_demo, everFailed, calls, last, files, tz, demo>>

SpecTable == InitTable /\ [][Normalise]_vars


-----------------------------------------------------------------------------
(* Properties *)

IsFetch(op) == op \in {"fetch_current_weather", "fetch_forecast"}

Fetches == { last.fetches[k] : k \in DOMAIN last.fetches }

\* C1: once a live request of the run has failed, every later call of
\* fetch_current_weather or fetch_forecast (made directly or by
\* create_dashboard) returns demo data and issues no request, and use_demo
\* is never set back to false.
C1_StickyDemo ==
    [][ /\ use_demo => use_demo'
        /\ everFailed' => use_demo'
        /\ \A k \in DOMAIN last'.fetches :
              (everFailed \/ \E j \in 1 .. k - 1 : last'.fetches[j].failed)
              => /\ last'.fetches[k].result.kind = "return"
                 /\ last'.fetches[k].source = "demo"
                 /\ last'.fetches[k].answers = << >> ]_vars

\* a call made after an earlier call failed: it issued no request and
\* returned demo data
C1_Witness ==
    /\ everFailed
    /\ last.op = "fetch_forecast"
    /\ ~last.fetches[1].failed
    /\ last.fetches[1].source = "demo"
    /\ last.fetches[1].answers = << >>

\* a failure of the live request as C2 words it: no response, a status
\* outside 200..299, or a body that is not JSON
FailureAsClaimed(a) ==
    a.type # "response" \/ a.status < 200 \/ a.status > 299 \/ ~a.json

\* a failure of the live request as requests raises it: no response, a 4xx
\* or 5xx status, or a body that is not JSON
FailureAsRaised(a) ==
    a.type # "response" \/ (a.status >= 400 /\ a.status < 600) \/ ~a.json

Degraded(o) == o.result.kind = "return" /\ o.source = "demo" /\ o.use_demo

\* C2, as claimed: a call whose live request got no response, a non-2xx
\* response or a body that is not JSON returns demo data of its kind and
\* sets the flag.
C2_AsClaimed ==
    \A o \in Fetches :
        (\E k \in DOMAIN o.answers : FailureAsClaimed(o.answers[k]))
        => Degraded(o)

\* C2, amended: a call whose live request got no response, a 4xx or 5xx
\* response or a body that is not JSON raises nothing: it returns the demo
\* record of its kind (the snapshot or the 40-point forecast) and sets the
\* flag.
C2_FailureNotSurfaced ==
    /\ \A o \in Fetches :
          (\E k \in DOMAIN o.answers : FailureAsRaised(o.answers[k]))
          => Degraded(o) /\ o.failed /\ Truthy(o.result.value)
    /\ IsFetch(last.op) /\ last.fetches[1].failed
       => /\ last.result = last.fetches[1].result
          /\ use_demo
          /\ last.op = "fetch_current_weather"
             => last.result.value = DemoCurrent
          /\ last.op = "fetch_forecast"
             => Len(last.result.value.list) = NPoints

\* a fetch_current_weather whose request was answered 401 returned the demo
\* snapshot
C2_Witness ==
    /\ last.op = "fetch_current_weather"
    /\ last.fetches[1].answers # << >>
    /\ last.fetches[1].answers[1].status = 401
    /\ last.result = Return(DemoCurrent)
    /\ use_demo

Generated == demo.zone # ""

DemoList == demo.forecast.list

\* C3, as claimed: a generated forecast has 40 points, point 0 at the start
\* time and consecutive 'dt' exactly 10800 s apart.
C3_AsClaimed ==
    Generated
    => /\ Len(DemoList) = 40
       /\ \A k \in 1 .. Len(DemoList) - 1 :
             DemoList[k + 1].dt - DemoList[k].dt = 10800
       /\ \A k \in 1 .. Len(DemoList) :
             DemoList[k].dt = DemoList[1].dt + (k - 1) * 10800

\* C7: every point of a generated forecast has a pressure in 990..1030 and
\* a humidity in 0..100, both integers.
C7_Ranges ==
    Generated
    => \A k \in 1 .. Len(DemoList) :
          /\ DemoList[k].main.pressure \in 990 .. 1030
          /\ DemoList[k].main.humidity \in 0 .. 100

\* a generated forecast that reaches the highest and the lowest pressure
\* and, with the highest draw at the crest of the wave, the highest humidity
C7_Witness ==
    /\ Generated
    /\ \E k \in 1 .. Len(DemoList) : DemoList[k].main.pressure = 1020
    /\ \E k \in 1 .. Len(DemoList) : DemoList[k].main.pressure = 1000
    /\ \E k \in 1 .. Len(DemoList) : DemoList[k].main.humidity = 84

\* the fields process_forecast_data reads of a point, as paths
ExpectedPaths ==
    << << "dt" >>, << "main", "temp" >>, << "main", "feels_like" >>,
       << "main", "humidity" >>, << "main", "pressure" >>,
       << "wind", "speed" >>, << "weather", 1, "main" >>,
       << "weather", 1, "description" >> >>

RECURSIVE Present(_, _)
Present(v, path) ==
    \/ path = << >>
    \/ Head(path) \in DOMAIN v /\ Present(v[Head(path)], Tail(path))

WellFormed(item) ==
    \A k \in DOMAIN ExpectedPaths : Present(item, ExpectedPaths[k])

HasPoints(f) == Has(f, "list")

AllWellFormed(f) ==
    HasPoints(f) /\ \A k \in DOMAIN f.list : WellFormed(f.list[k])

Normalised == table.result.kind # "pending"

\* C4: normalising a forecast of N well-formed points leaves the forecast
\* as it was and returns N rows in the order of the points, row k with the
\* local time of point k's dt and the values of point k.
C4_RowPerPoint ==
    [][ AllWellFormed(table.forecast)
        => /\ table'.forecast = table.forecast
           /\ table'.result.kind = "return"
           /\ Len(table'.result.value) = Len(table.forecast.list)
           /\ \A k \in DOMAIN table.forecast.list :
                 LET item == table.forecast.list[k]
                     row == table'.result.value[k]
                 IN  /\ row.datetime.s - EpochOffset(tz, item.dt) = item.dt
                     /\ row.temperature = item.main.temp
                     /\ row.feels_like = item.main.feels_like
                     /\ row.humidity = item.main.humidity
                     /\ row.pressure = item.main.pressure
                     /\ row.wind_speed = item.wind.speed
                     /\ row.weather = item.weather[1].main
                     /\ row.description = item.weather[1].description ]_vars

\* three different points were normalised into three rows
C4_Witness ==
    /\ Normalised
    /\ AllWellFormed(table.forecast)
    /\ Len(table.forecast.list) = 3
    /\ table.forecast.list[1] # table.forecast.list[2]
    /\ table.forecast.list[1].main.temp > table.forecast.list[3].main.temp
    /\ Len(table.result.value) = 3

\* the run of create_dashboard got both records and went on to normalise
Processed ==
    /\ last.op = "create_dashboard"
    /\ Len(last.fetches) = 2
    /\ \A k \in 1 .. 2 : last.fetches[k].result.kind = "return"
    /\ \A k \in 1 .. 2 : Truthy(last.fetches[k].result.value)

\* C5: when a point of the forecast lacks a field the normaliser reads,
\* create_dashboard raises the missing-field error of process_forecast_data
\* (KeyError, or IndexError for an empty weather list), having drawn
\* nothing, and returns no table and writes no image.
C5_MissingFieldFatal ==
    ( /\ Processed
      /\ HasPoints(last.fetches[2].result.value)
      /\ ~AllWellFormed(last.fetches[2].result.value) )
    => /\ last.result.kind = "raise"
       /\ last.result.exc \in {"KeyError", "IndexError"}
       /\ last.steps = << "process" >>
       /\ last.image = NoImage

\* a live forecast whose second point lacks main.humidity stopped the run
C5_Witness ==
    /\ Processed
    /\ last.fetches[2].source = "live"
    /\ HasPoints(last.fetches[2].result.value)
    /\ Len(last.fetches[2].result.value.list) = 3
    /\ WellFormed(last.fetches[2].result.value.list[1])
    /\ Has(last.fetches[2].result.value.list[2], "main")
    /\ ~Has(last.fetches[2].result.value.list[2].main, "humidity")
    /\ last.result = Raise("KeyError")
    /\ last.steps = << "process" >>

\* both fetches of the run returned, and returned empty records
BothEmpty(l) ==
    /\ l.op = "create_dashboard"
    /\ Len(l.fetches) = 2
    /\ \A k \in 1 .. 2 : l.fetches[k].result.kind = "return"
    /\ \A k \in 1 .. 2 : ~Truthy(l.fetches[k].result.value)

\* C6: when the snapshot and the forecast are both empty after the fetches,
\* create_dashboard normalises nothing, draws nothing, writes no image and
\* returns None.
C6_AbortsWithoutRender ==
    [][ BothEmpty(last')
        => /\ last'.steps = << >>
           /\ last'.result = ReturnNone
           /\ last'.image = NoImage
           /\ files' = files ]_vars

\* the service answered {} to both requests of a run
C6_Witness == BothEmpty(last) /\ ~use_demo /\ last.result = ReturnNone

\* the float one unit in the last place above or below x (x itself for 0)
MagnitudeUp(x) == RoundFloat(x.s, BAdd(x.m, << 1 >>), x.e, FALSE)

MagnitudeDown(x) ==
    IF BBits(BSub(x.m, << 1 >>)) < Precision
    THEN [x EXCEPT !.m = BSub(BShl(x.m, 1), << 1 >>), !.e = x.e - 1]
    ELSE [x EXCEPT !.m = BSub(x.m, << 1 >>)]

FNextUp(x) ==
    IF x.m = << >> THEN x
    ELSE IF x.s = 1 THEN MagnitudeUp(x) ELSE MagnitudeDown(x)

FNextDown(x) ==
    IF x.m = << >> THEN x
    ELSE IF x.s = 1 THEN MagnitudeDown(x) ELSE MagnitudeUp(x)

TableRows == table.result.value

RowDates == { DateOf(TableRows[k].datetime) : k \in DOMAIN TableRows }

TempsOn(d) ==
    { TableRows[k].temperature :
        k \in { j \in DOMAIN TableRows : DateOf(TableRows[j].datetime) = d } }

\* one row per date of the table, dates ascending, min_temp and max_temp
\* the least and the greatest temperature of the rows of the date
OneRowPerDate ==
    /\ { table.stats[g].date : g \in DOMAIN table.stats } = RowDates
    /\ Len(table.stats) = Cardinality(RowDates)
    /\ \A g \in DOMAIN table.stats, h \in DOMAIN table.stats :
          g < h => table.stats[g].date < table.stats[h].date
    /\ \A g \in DOMAIN table.stats :
          LET st == table.stats[g]
          IN  /\ st.min_temp \in TempsOn(st.date)
              /\ st.max_temp \in TempsOn(st.date)
              /\ \A t \in TempsOn(st.date) :
                    st.min_temp <= t /\ t <= st.max_temp

\* C8, as claimed: one row per date, ascending, and
\* min_temp <= mean_temp <= max_temp on every date.
C8_AsClaimed ==
    Normalised /\ table.result.kind = "return"
    => /\ OneRowPerDate
       /\ \A g \in DOMAIN table.stats :
             LET st == table.stats[g]
             IN  /\ FLe(FromTenths(st.min_temp), st.mean_temp)
                 /\ FLe(st.mean_temp, FromTenths(st.max_temp))

\* C8, amended: one row per date, ascending, min_temp <= max_temp the
\* least and greatest temperature of the date, and mean_temp (a float
\* quotient of a float sum) within one unit in the last place of
\* [min_temp, max_temp].
C8_DailyStats ==
    Normalised /\ table.result.kind = "return"
    => /\ OneRowPerDate
       /\ \A g \in DOMAIN table.stats :
             LET st == table.stats[g]
             IN  /\ st.min_temp <= st.max_temp
                 /\ FLe(FNextDown(FromTenths(st.min_temp)), st.mean_temp)
                 /\ FLe(st.mean_temp, FNextUp(FromTenths(st.max_temp)))

\* a table given out of date order was aggregated into two dates, one of
\* them with two different temperatures
C8_Witness ==
    /\ Normalised /\ table.result.kind = "return"
    /\ Len(TableRows) = 3
    /\ DateOf(TableRows[1].datetime) > DateOf(TableRows[2].datetime)
    /\ Len(table.stats) = 2
    /\ \E g \in DOMAIN table.stats :
          table.stats[g].min_temp < table.stats[g].max_temp

\* C9: every call of a fetch method returns after at most one live request
\* and at most one call of itself, and that call takes the demo branch.
C9_BoundedFallback ==
    \A o \in Fetches :
        /\ o.result.kind = "return"
        /\ Len(o.answers) <= 1
        /\ o.frames <= 1
        /\ o.frames = 1 => o.failed /\ o.source = "demo" /\ Len(o.answers) = 1

\* a fetch_forecast that failed and called itself once
C9_Witness ==
    /\ last.op = "fetch_forecast"
    /\ last.fetches[1].frames = 1
    /\ Len(last.fetches[1].answers) = 1
    /\ last.fetches[1].answers[1].type = "ConnectionError"

DemoFile == "weather_dashboard_demo.png"

LiveFile == "weather_dashboard.png"

\* C10, as claimed: the snapshot and the forecast of every image come from
\* the same source, which the file name and the title state.
C10_AsClaimed ==
    \A img \in files :
        /\ img.current = img.forecast
        /\ img.name = DemoFile
           <=> (img.current = "demo" /\ img.forecast = "demo")
        /\ img.name = LiveFile
           <=> (img.current = "live" /\ img.forecast = "live")
        /\ img.title_suffix = " (DEMO DATA)" <=> img.name = DemoFile

\* C10, amended: the image is the demo file, with the demo title, exactly
\* when its forecast was synthesized, and the live file exactly when the
\* snapshot and the forecast were both fetched live; a synthesized snapshot
\* always comes with a synthesized forecast, while a live snapshot may come
\* with a synthesized forecast, under the demo name.
C10_LabelFollowsForecast ==
    \A img \in files :
        /\ img.name \in {DemoFile, LiveFile}
        /\ img.name = DemoFile <=> img.forecast = "demo"
        /\ img.name = LiveFile
           <=> (img.current = "live" /\ img.forecast = "live")
        /\ img.title_suffix = " (DEMO DATA)" <=> img.name = DemoFile
        /\ img.current = "demo" => img.forecast = "demo"

\* an image of each of the three kinds was written in one run
C10_Witness ==
    /\ \E img \in files : img.current = "live" /\ img.forecast = "live"
    /\ \E img \in files : img.current = "live" /\ img.forecast = "demo"
    /\ \E img \in files : img.current = "demo" /\ img.forecast = "demo"

=============================================================================
